---- MODULE Spec2Model ----
(***************************************************************************)
(* Model of the smart-load-manager orchestration core:                     *)
(*   SmartService (smart-service.ts): load / _loadTask / mutex / isLoaded  *)
(*   SmartLoad    (smart-load.ts):    createMutex / queue / start          *)
(* Every await of the source is a suspension point: the code between two   *)
(* awaits is one action.  Promises are modelled by their settlement state. *)
(***************************************************************************)
EXTENDS Integers, Sequences, FiniteSets, TLC

\* ---------------------------------------------------------------- bounds
MaxGates == 2
MaxCalls == 2
MaxObjects == 2
MaxPreloads == 2
MaxStarts == 3
MaxReadyCalls == 2
MaxCallbacks == 4
MaxInits == 2
MaxPushes == 2
MaxTasks == 2
MaxSeries == 3

\* the service instances (SmartService.create)
Services == {"A", "B"}
NoService == "-"
GateIds == 1..MaxGates

\* SmartServiceOptions given to create(): name / url by what `!value` makes of them
Configs ==
  { [name |-> "missing", url |-> "missing"], [name |-> "empty", url |-> "ok"],
    [name |-> "ok", url |-> "missing"], [name |-> "ok", url |-> "ok"] }

VARIABLES
  config,        \* SmartService._config of each instance: [name, url]
  loaded,        \* SmartService._loaded
  mutex,         \* SmartService._mutex: 0 = the initial Promise.resolve(), else a gate id
  state,         \* SmartService._state and the position of _loadTask
  taskGate,      \* the promise `await this._mutex` of _loadTask is suspended on (-1: none)
  validated,     \* _loadTask has reached the name/url checks
  injection,     \* the promise returned by loadScript
  injectCalls,   \* number of loadScript invocations
  failedHook,    \* log of _onFailedScript(e) invocations (the causes e)
  rejection,     \* the value _state rejected with
  calls,         \* what the promise returned by each load() call settled to
  started,       \* SmartLoad._whenStarted is resolved
  defaultMutex,  \* the memoized promise of SmartLoad.defaultMutex()
  gates,         \* promises used as mutexes: user promises and createMutex() results
  cls,           \* the classes: static _config / _instance, and the instances they built
  pre,           \* preload() of each instance: calls, resolved promises, timers, <link>s
  startCalls,    \* number of SmartLoad.start() calls of the callers that are counted
  ready,         \* document.readyState and the memoized onLoaded() / onComplete() promises
  idle,          \* promisifyIdle: its closure (thresholds, start, previousFrameEnd, last3),
                 \* the clock, the pending idle callback, the promise, and allocated,
                 \* frameEnd and frameLength as the latest callback computed them
  ad,            \* a <smart-adsense> element: its fields, attributes, markup and timer
  race,          \* one waitAny(tasks, signal)(abortSignal) call: the tokens, the promises
                 \* of its tasks, Promise.race and the promise of the call
  series         \* one asyncSeries(tasks) call: its tasks, its position and its promise

\* the variables of the parts of the program the orchestration core does not touch
utilVars == <<race, series>>
extVars == <<cls, pre, startCalls, ready, idle, ad, utilVars>>

vars == <<config, loaded, mutex, state, taskGate, validated, injection, injectCalls,
          failedHook, rejection, calls, started, defaultMutex, gates, extVars>>

svcVars == <<config, loaded, mutex, state, taskGate, validated, injection, injectCalls,
             failedHook, rejection, calls>>

FreeGate == [kind |-> "free", pc |-> "none", after |-> "none", of |-> NoService,
             prev |-> "none", prevCalls |-> 0]

Settled == {"resolved", "rejected"}

\* settlement of the promise a mutex value refers to
GateStatus(g) ==
  IF g = 0 THEN "resolved"
  ELSE IF gates[g].pc \in Settled THEN gates[g].pc ELSE "pending"

Falsy(v) == v \in {"missing", "empty"}

\* preload() was never called on the service
NoPreload == <<>>

\* onLoaded() / onComplete() not called yet: nothing memoized
NoAwaitable == [calls |-> 0]

ReadyKinds == {"onLoaded", "onComplete"}

\* the document is being parsed when the first script runs
ReadyInit == [state |-> "loading", onLoaded |-> NoAwaitable, onComplete |-> NoAwaitable]

\* times are in tenths of a millisecond
IDLE_THRESHOLD_DURATION == 466
IDLE_THRESHOLD_RATIO == [num |-> 9, den |-> 10]
IDLE_TIMEOUT == 100000

\* promisifyIdle() not called yet: there is no closure and no promise
IdleInit == [pc |-> "none"]

\* DelayedTask with nothing scheduled
NoTask == [fn |-> "none", delay |-> -1]

\* SmartAdsense._config as declared: retryDelay 20, retryCount 3, no refresh
AdDefaults == [retryDelay |-> 20, retryCount |-> 3, refreshInterval |-> 0,
               refreshOnResize |-> FALSE]

\* no <smart-adsense> element has been created yet
AdInit == [born |-> FALSE]

\* no 'smart-adsense:change' event was dispatched yet
NoEvent == [type |-> "none", bubbles |-> FALSE, detail |-> "none"]

\* the element as constructed: its markup and attributes, whether its display query
\* matches, and the initial values of its fields
NewAd(markup, loading, matches, cfg) ==
  [born |-> TRUE, connected |-> FALSE, html |-> markup, content |-> "", loading |-> loading,
   matches |-> matches, inactive |-> TRUE, config |-> cfg, status |-> "init",
   retries |-> 0, lastWidth |-> 0, task |-> NoTask, waiting |-> 0, pushes |-> 0,
   intersect |-> FALSE, attr |-> "none", request |-> FALSE, event |-> NoEvent]

\* the service classes: SmartAdsense extends SmartService
Types == {"SmartService", "SmartAdsense"}

\* static _config of each class as declared (a key that is not set reads "missing")
DefaultConfig(T) ==
  IF T = "SmartService"
  THEN [name |-> "service", url |-> "missing", attrs |-> "missing"]
  ELSE [name |-> "Adsense", url |-> "missing", attrs |-> "anonymous"]

NoConfig == [name |-> "none", url |-> "none", attrs |-> "none"]

\* no call of config() yet
NoCall == [type |-> "none"]

\* static _instance is declared by SmartService only and holds undefined (0); objs are
\* the instances built, got the pairs <<class, instance>> of what T.instance returned,
\* call the last config() call
ClsInit ==
  [cfg |-> [T \in Types |-> DefaultConfig(T)],
   inst |-> [T \in Types |-> IF T = "SmartService" THEN 0 ELSE -1],
   objs |-> <<>>,
   got |-> {},
   call |-> NoCall]

\* no waitAny task has been called; asyncSeries has not been called
RaceInit == [pc |-> "none"]
SeriesInit == [pc |-> "none"]

Init ==
  /\ config \in [Services -> Configs]
  /\ loaded = [s \in Services |-> FALSE]
  /\ mutex = [s \in Services |-> 0]
  /\ state = [s \in Services |-> "none"]
  /\ taskGate = [s \in Services |-> -1]
  /\ validated = [s \in Services |-> FALSE]
  /\ injection = [s \in Services |-> "none"]
  /\ injectCalls = [s \in Services |-> 0]
  /\ failedHook = [s \in Services |-> <<>>]
  /\ rejection = [s \in Services |-> "none"]
  /\ calls = [s \in Services |-> <<>>]
  /\ started = FALSE
  /\ defaultMutex = "none"
  /\ gates = [g \in GateIds |-> FreeGate]
  /\ cls = ClsInit
  /\ pre = [s \in Services |-> NoPreload]
  /\ startCalls = 0
  /\ ready = ReadyInit
  /\ idle = IdleInit
  /\ ad = AdInit
  /\ race = RaceInit
  /\ series = SeriesInit

\* ---------------------------------------------------------- SmartService

\* load(): if (!this._state) this._state = this._loadTask();  return this._state
LoadStateNoMemo(s) == "awaitMutex"
LoadState(s) == IF state[s] = "none" THEN "awaitMutex" ELSE state[s]

\* _loadTask runs synchronously up to `await this._mutex`: the promise held by
\* _mutex at the first load() is the one the task is suspended on
LoadGateLatest(s, m) == m
LoadGate(s, m) == IF state[s] = "none" THEN m ELSE taskGate[s]

\* the promise whose settlement resumes _loadTask
AwaitedGateCurrent(s) == mutex[s]
AwaitedGate(s) == taskGate[s]

\* if (!name) throw ...; if (!url) throw ...
LoadCheckUrlFirst(c) ==
  IF Falsy(c.url) THEN "noUrl" ELSE IF Falsy(c.name) THEN "noName" ELSE "ok"
LoadCheck(c) ==
  IF Falsy(c.name) THEN "noName" ELSE IF Falsy(c.url) THEN "noUrl" ELSE "ok"

\* catch (e) { this._onFailedScript(e); return Promise.reject(false); }
RejectValueRethrow(cause) == cause
RejectValue(cause) == "false"

\* _onLoadScript(): this._loaded = true
OnLoadScriptNoFlag(s) == loaded
OnLoadScript(s) == [loaded EXCEPT ![s] = TRUE]

\* the catch block of _loadTask
Fail(s, cause) ==
  /\ state' = [state EXCEPT ![s] = "rejected"]
  /\ failedHook' = [failedHook EXCEPT ![s] = Append(@, cause)]
  /\ rejection' = [rejection EXCEPT ![s] = RejectValue(cause)]

\* number of load() calls whose promise a caller holds
RECURSIVE SumCalls(_)
SumCalls(S) ==
  IF S = {} THEN 0
  ELSE LET s == CHOOSE x \in S : TRUE IN Len(calls[s]) + SumCalls(S \ {s})
TotalCalls == SumCalls(Services)

\* service.load() by a caller that keeps the returned promise
Load(s) ==
  /\ TotalCalls < MaxCalls
  /\ state' = [state EXCEPT ![s] = LoadState(s)]
  /\ taskGate' = [taskGate EXCEPT ![s] = LoadGate(s, mutex[s])]
  /\ calls' = [calls EXCEPT ![s] = Append(@, "pending")]
  /\ UNCHANGED <<config, loaded, mutex, validated, injection, injectCalls,
                 failedHook, rejection, started, defaultMutex, gates>>
  /\ UNCHANGED extVars

\* service.load() by a caller that drops the returned promise
LoadDetached(s) ==
  /\ state' = [state EXCEPT ![s] = LoadState(s)]
  /\ taskGate' = [taskGate EXCEPT ![s] = LoadGate(s, mutex[s])]
  /\ UNCHANGED <<config, loaded, mutex, validated, injection, injectCalls,
                 failedHook, rejection, calls, started, defaultMutex, gates>>
  /\ UNCHANGED extVars

\* service.mutex = p, for a fresh promise p owned by the caller
SetMutex(s) ==
  \E g \in GateIds :
    /\ gates[g].kind = "free"
    /\ \A h \in GateIds : h < g => gates[h].kind # "free"
    /\ gates' = [gates EXCEPT ![g] = [FreeGate EXCEPT !.kind = "user", !.pc = "pending"]]
    /\ mutex' = [mutex EXCEPT ![s] = g]
    /\ UNCHANGED <<config, loaded, state, taskGate, validated, injection, injectCalls,
                   failedHook, rejection, calls, started, defaultMutex>>
    /\ UNCHANGED extVars

\* the caller's promise settles
SettleUserGate(g, outcome) ==
  /\ gates[g].kind = "user"
  /\ gates[g].pc = "pending"
  /\ gates' = [gates EXCEPT ![g].pc = outcome]
  /\ UNCHANGED <<svcVars, started, defaultMutex>>
  /\ UNCHANGED extVars

\* _loadTask resumes after `await this._mutex`: validation, then loadScript(...)
LoadTaskResume(s) ==
  /\ state[s] = "awaitMutex"
  /\ GateStatus(AwaitedGate(s)) \in Settled
  /\ IF GateStatus(AwaitedGate(s)) = "rejected"
     THEN /\ Fail(s, "gate")
          /\ UNCHANGED <<validated, injection, injectCalls>>
     ELSE /\ validated' = [validated EXCEPT ![s] = TRUE]
          /\ IF LoadCheck(config[s]) # "ok"
             THEN /\ Fail(s, LoadCheck(config[s]))
                  /\ UNCHANGED <<injection, injectCalls>>
             ELSE /\ injection' = [injection EXCEPT ![s] = "pending"]
                  /\ injectCalls' = [injectCalls EXCEPT ![s] = @ + 1]
                  /\ state' = [state EXCEPT ![s] = "awaitScript"]
                  /\ UNCHANGED <<failedHook, rejection>>
  /\ UNCHANGED <<config, loaded, mutex, taskGate, calls, started, defaultMutex, gates>>
  /\ UNCHANGED extVars

\* the script element loads, or fails with an Error or with another value, and
\* _loadTask resumes after `await loadScript(...)`
LoadTaskAfterScript(s, outcome) ==
  /\ state[s] = "awaitScript"
  /\ injection[s] = "pending"
  /\ injection' = [injection EXCEPT ![s] = outcome]
  /\ IF outcome = "resolved"
     THEN /\ loaded' = OnLoadScript(s)
          /\ state' = [state EXCEPT ![s] = "resolved"]
          /\ UNCHANGED <<failedHook, rejection>>
     ELSE /\ Fail(s, IF outcome = "rejectedError" THEN "scriptError" ELSE "scriptOther")
          /\ UNCHANGED loaded
  /\ UNCHANGED <<config, mutex, taskGate, validated, injectCalls,
                 calls, started, defaultMutex, gates>>
  /\ UNCHANGED extVars

\* the promise a load() call returned follows _state (reactions run in call order)
CallSettle(s, i) ==
  /\ i \in 1..Len(calls[s])
  /\ calls[s][i] = "pending"
  /\ \A j \in 1..(i - 1) : calls[s][j] # "pending"
  /\ state[s] \in Settled
  /\ calls' = [calls EXCEPT ![s][i] = IF state[s] = "resolved" THEN "true" ELSE rejection[s]]
  /\ UNCHANGED <<config, loaded, mutex, state, taskGate, validated, injection, injectCalls,
                 failedHook, rejection, started, defaultMutex, gates>>
  /\ UNCHANGED extVars

\* ------------------------------------------------------------- SmartLoad

\* createMutex: try { await started; await previousTask() } catch {} finally { resolve() }
MutexOutcomeNoFinally(prev) == IF prev = "resolved" THEN "resolved" ELSE "failed"
MutexOutcomeNoCatch(prev) == IF prev \in {"rejected", "threw"} THEN "rejected" ELSE "resolved"
MutexOutcome(prev) == "resolved"

\* await this._whenStarted.promise
WhenStartedNoWait == TRUE
WhenStarted == started

\* new Promise(...) of createMutex(after): runs up to `await this._whenStarted.promise`
NewMutex(after, of) ==
  [kind |-> "mutex", pc |-> "awaitStarted", after |-> after, of |-> of,
   prev |-> "none", prevCalls |-> 0]

\* SmartLoad.queue(service, after): after is defaultMutex, t.load or a caller's factory;
\* service.mutex = createMutex(after); service.load().catch(() => void 0)
Queue(s, after, of) ==
  \E g \in GateIds :
    /\ gates[g].kind = "free"
    /\ \A h \in GateIds : h < g => gates[h].kind # "free"
    /\ gates' = [gates EXCEPT ![g] = NewMutex(after, of)]
    /\ mutex' = [mutex EXCEPT ![s] = g]
    /\ state' = [state EXCEPT ![s] = LoadState(s)]
    /\ taskGate' = [taskGate EXCEPT ![s] = LoadGate(s, g)]
    /\ UNCHANGED <<config, loaded, validated, injection, injectCalls,
                   failedHook, rejection, calls, started, defaultMutex>>
    /\ UNCHANGED extVars

\* this._whenStarted.resolve(): resolving a settled promise again has no effect
DeferredResolveFlip(cur) == ~cur
DeferredResolve(cur) == TRUE

\* SmartLoad.start()
Start ==
  /\ started' = DeferredResolve(started)
  /\ UNCHANGED <<svcVars, defaultMutex, gates>>
  /\ UNCHANGED extVars

\* SmartLoad.start() by a caller whose calls are counted
StartCall ==
  /\ startCalls < MaxStarts
  /\ startCalls' = startCalls + 1
  /\ started' = DeferredResolve(started)
  /\ UNCHANGED <<svcVars, defaultMutex, gates, cls, pre, ready, idle, ad, utilVars>>

\* createMutex resumes after `await this._whenStarted.promise` and calls previousTask()
MutexInvoke(g) ==
  /\ gates[g].kind = "mutex"
  /\ gates[g].pc = "awaitStarted"
  /\ WhenStarted
  /\ \/ /\ gates[g].after = "default"
        /\ defaultMutex' = IF defaultMutex = "none" THEN "awaitStarted" ELSE defaultMutex
        /\ gates' = [gates EXCEPT ![g].pc = "awaitPrev", ![g].prev = "pending",
                                  ![g].prevCalls = @ + 1]
        /\ UNCHANGED <<state, taskGate>>
     \/ /\ gates[g].after = "load"
        /\ state' = [state EXCEPT ![gates[g].of] = LoadState(gates[g].of)]
        /\ taskGate' = [taskGate EXCEPT ![gates[g].of] = LoadGate(gates[g].of, mutex[gates[g].of])]
        /\ gates' = [gates EXCEPT ![g].pc = "awaitPrev", ![g].prev = "pending",
                                  ![g].prevCalls = @ + 1]
        /\ UNCHANGED defaultMutex
     \/ /\ gates[g].after = "ext"
        /\ gates' = [gates EXCEPT ![g].pc = "awaitPrev", ![g].prev = "pending",
                                  ![g].prevCalls = @ + 1]
        /\ UNCHANGED <<state, taskGate, defaultMutex>>
     \/ /\ gates[g].after = "ext"
        /\ gates' = [gates EXCEPT ![g].pc = MutexOutcome("threw"), ![g].prev = "threw",
                                  ![g].prevCalls = @ + 1]
        /\ UNCHANGED <<state, taskGate, defaultMutex>>
  /\ UNCHANGED <<config, loaded, mutex, validated, injection, injectCalls,
                 failedHook, rejection, calls, started>>
  /\ UNCHANGED extVars

\* settlement of the promise previousTask() returned, for defaultMutex and t.load
PrevStatusNoAwait(g) == "resolved"
PrevStatus(g) ==
  IF gates[g].after = "default"
  THEN IF defaultMutex = "resolved" THEN "resolved" ELSE "pending"
  ELSE IF state[gates[g].of] \in Settled THEN state[gates[g].of] ELSE "pending"

\* the promise previousTask() returned settles (a caller's factory: either way) and
\* createMutex resumes after `await previousTask()`: catch, finally resolve()
MutexResume(g, outcome) ==
  /\ gates[g].kind = "mutex"
  /\ gates[g].pc = "awaitPrev"
  /\ IF gates[g].after = "ext" THEN TRUE ELSE outcome = PrevStatus(g)
  /\ gates' = [gates EXCEPT ![g].pc = MutexOutcome(outcome), ![g].prev = outcome]
  /\ UNCHANGED <<svcVars, started, defaultMutex>>
  /\ UNCHANGED extVars

\* the memoized defaultMutex() = createMutex(this.now)
DefaultInvoke ==
  /\ defaultMutex = "awaitStarted"
  /\ WhenStarted
  /\ defaultMutex' = "awaitPrev"
  /\ UNCHANGED <<svcVars, started, gates>>
  /\ UNCHANGED extVars

DefaultResume ==
  /\ defaultMutex = "awaitPrev"
  /\ defaultMutex' = MutexOutcome("resolved")
  /\ UNCHANGED <<svcVars, started, gates>>
  /\ UNCHANGED extVars

\* SmartService on its own: callers set mutexes and call load()
NextService ==
  \/ \E s \in Services : Load(s)
  \/ \E s \in Services : SetMutex(s)
  \/ \E g \in GateIds, o \in Settled : SettleUserGate(g, o)
  \/ \E s \in Services : LoadTaskResume(s)
  \/ \E s \in Services, o \in {"resolved", "rejectedError", "rejectedOther"} :
       LoadTaskAfterScript(s, o)
  \/ \E s \in Services, i \in 1..MaxCalls : CallSettle(s, i)

SpecService == Init /\ [][NextService]_vars

\* services under SmartLoad: queue() and callers drop the promise load() returns; the
\* services have a name and a url, their loads fail by a rejected gate or script
InitQueue == Init /\ \A s \in Services : LoadCheck(config[s]) = "ok"

\* how the script of a queued service settles (what a failure rejects with is the
\* subject of SpecService)
QueueOutcomes == {"resolved", "rejectedError"}

Next ==
  \/ \E s \in Services : LoadDetached(s)
  \/ \E s \in Services : SetMutex(s)
  \/ \E g \in GateIds, o \in Settled : SettleUserGate(g, o)
  \/ \E s \in Services : LoadTaskResume(s)
  \/ \E s \in Services, o \in QueueOutcomes : LoadTaskAfterScript(s, o)
  \/ \E s \in Services : Queue(s, "default", NoService)
  \/ \E s, t \in Services : Queue(s, "load", t)
  \/ \E s \in Services : Queue(s, "ext", NoService)
  \/ Start
  \/ \E g \in GateIds : MutexInvoke(g)
  \/ \E g \in GateIds, o \in Settled : MutexResume(g, o)
  \/ DefaultInvoke
  \/ DefaultResume

Spec == InitQueue /\ [][Next]_vars

\* SmartLoad whose start() is called any number of times
NextStart ==
  \/ \E s \in Services : Queue(s, "default", NoService)
  \/ \E s, t \in Services : Queue(s, "load", t)
  \/ \E s \in Services : Queue(s, "ext", NoService)
  \/ StartCall
  \/ \E g \in GateIds : MutexInvoke(g)
  \/ \E g \in GateIds, o \in Settled : MutexResume(g, o)
  \/ DefaultInvoke
  \/ DefaultResume
  \/ \E s \in Services : LoadTaskResume(s)
  \/ \E s \in Services, o \in QueueOutcomes : LoadTaskAfterScript(s, o)

SpecStart == InitQueue /\ [][NextStart]_vars

\* the continuations of createMutex and _loadTask are promise reactions, which run once
\* the promise they wait for has settled; the promise a caller's factory returned and
\* the script injection settle
QueueFairness ==
  /\ \A g \in GateIds : WF_vars(MutexInvoke(g))
  /\ \A g \in GateIds : WF_vars(\E o \in Settled : MutexResume(g, o))
  /\ WF_vars(DefaultInvoke)
  /\ WF_vars(DefaultResume)
  /\ \A s \in Services : WF_vars(LoadTaskResume(s))
  /\ \A s \in Services : WF_vars(\E o \in QueueOutcomes : LoadTaskAfterScript(s, o))

\* services that are only loaded through SmartLoad.queue()
NextQueue ==
  \/ \E s \in Services : Queue(s, "default", NoService)
  \/ \E s, t \in Services : Queue(s, "load", t)
  \/ \E s \in Services : Queue(s, "ext", NoService)
  \/ Start
  \/ \E g \in GateIds : MutexInvoke(g)
  \/ \E g \in GateIds, o \in Settled : MutexResume(g, o)
  \/ DefaultInvoke
  \/ DefaultResume
  \/ \E s \in Services : LoadTaskResume(s)
  \/ \E s \in Services, o \in QueueOutcomes : LoadTaskAfterScript(s, o)

SpecQueueFair == InitQueue /\ [][NextQueue]_vars /\ QueueFairness

\* --------------------------------------- SmartLoad.onLoaded / onComplete

\* the readyPredicate of onLoaded and of onComplete
ReadyPredicate(kind, rs) == IF kind = "onLoaded" THEN rs # "loading" ELSE rs = "complete"

\* the 'readystatechange' handler: if (readyPredicate()) { removeEventListener; resolve() }
HandlerReadyAnyChange(kind, rs) == TRUE
HandlerReady(kind, rs) == ReadyPredicate(kind, rs)

\* onReadyState(readyPredicate): resolve at once, or listen to 'readystatechange'
OnReadyState(kind, rs) ==
  IF ReadyPredicate(kind, rs)
  THEN [pc |-> "resolved", listening |-> FALSE, resolves |-> 1, calls |-> 0]
  ELSE [pc |-> "pending", listening |-> TRUE, resolves |-> 0, calls |-> 0]

\* @memoize(): the promise of the first call is returned by every call
Memoized(a, kind, rs) ==
  IF a.calls = 0 THEN [OnReadyState(kind, rs) EXCEPT !.calls = 1]
  ELSE [a EXCEPT !.calls = @ + 1]

\* the handler a pending awaitable registered runs on the event
Handler(a, kind, rs) ==
  IF a.calls > 0 /\ a.listening /\ HandlerReady(kind, rs)
  THEN [a EXCEPT !.pc = "resolved", !.listening = FALSE, !.resolves = @ + 1]
  ELSE a

\* SmartLoad.onLoaded() / SmartLoad.onComplete()
ReadyCall(kind) ==
  /\ ready[kind].calls < MaxReadyCalls
  /\ ready' = [ready EXCEPT ![kind] = Memoized(@, kind, ready.state)]
  /\ UNCHANGED <<svcVars, started, defaultMutex, gates, cls, pre, startCalls, idle, ad, utilVars>>

\* the document goes loading -> interactive -> complete; each step dispatches
\* 'readystatechange' to the registered handlers
ReadyStateChange ==
  /\ ready.state # "complete"
  /\ LET rs == IF ready.state = "loading" THEN "interactive" ELSE "complete"
     IN ready' = [state |-> rs,
                  onLoaded |-> Handler(ready.onLoaded, "onLoaded", rs),
                  onComplete |-> Handler(ready.onComplete, "onComplete", rs)]
  /\ UNCHANGED <<svcVars, started, defaultMutex, gates, cls, pre, startCalls, idle, ad, utilVars>>

\* SmartLoad.queue(service, SmartLoad.onLoaded()) / (service, SmartLoad.onComplete()):
\* `after` is the promise the call returned, not a function returning it
QueueValue(s, kind) ==
  \E g \in GateIds :
    /\ ready[kind].calls < MaxReadyCalls
    /\ gates[g].kind = "free"
    /\ \A h \in GateIds : h < g => gates[h].kind # "free"
    /\ ready' = [ready EXCEPT ![kind] = Memoized(@, kind, ready.state)]
    /\ gates' = [gates EXCEPT ![g] = NewMutex(kind, NoService)]
    /\ mutex' = [mutex EXCEPT ![s] = g]
    /\ state' = [state EXCEPT ![s] = LoadState(s)]
    /\ taskGate' = [taskGate EXCEPT ![s] = LoadGate(s, g)]
    /\ UNCHANGED <<config, loaded, validated, injection, injectCalls,
                   failedHook, rejection, calls, started, defaultMutex>>
    /\ UNCHANGED <<cls, pre, startCalls, idle, ad, utilVars>>

\* createMutex resumes after `await this._whenStarted.promise`: previousTask is a
\* promise, `previousTask()` throws a TypeError, catch ignores it, finally resolve()
MutexInvokeValue(g) ==
  /\ gates[g].kind = "mutex"
  /\ gates[g].pc = "awaitStarted"
  /\ gates[g].after \in ReadyKinds
  /\ WhenStarted
  /\ gates' = [gates EXCEPT ![g].pc = MutexOutcome("threw"), ![g].prev = "threw"]
  /\ UNCHANGED <<svcVars, started, defaultMutex, extVars>>

\* services queued behind the readiness of the document
NextReady ==
  \/ \E k \in ReadyKinds : ReadyCall(k)
  \/ ReadyStateChange
  \/ \E s \in Services, k \in ReadyKinds : QueueValue(s, k)
  \/ Start
  \/ \E g \in GateIds : MutexInvokeValue(g)
  \/ \E s \in Services : LoadTaskResume(s)
  \/ \E s \in Services, o \in QueueOutcomes : LoadTaskAfterScript(s, o)

SpecReady == InitQueue /\ [][NextReady]_vars

\* ------------------------------------------- SmartService: static members

\* a key the options object passed to config() does not have
Absent == "absent"

\* the options objects callers pass to config(): {}, {url}, {name, attrs}, {url: undefined}
Partials ==
  { [name |-> Absent, url |-> Absent, attrs |-> Absent],
    [name |-> Absent, url |-> "u1", attrs |-> Absent],
    [name |-> "n1", url |-> Absent, attrs |-> "defer"],
    [name |-> Absent, url |-> "missing", attrs |-> Absent] }

\* the options objects callers pass to create()
CreateOptions ==
  { [name |-> "n2", url |-> "u2", attrs |-> "missing"] }

\* {...this._config, ...options}
MergePrevWins(prev, p) ==
  [name |-> IF prev.name # "missing" \/ p.name = Absent THEN prev.name ELSE p.name,
   url |-> IF prev.url # "missing" \/ p.url = Absent THEN prev.url ELSE p.url,
   attrs |-> IF prev.attrs # "missing" \/ p.attrs = Absent THEN prev.attrs ELSE p.attrs]
Merge(prev, p) ==
  [name |-> IF p.name # Absent THEN p.name ELSE prev.name,
   url |-> IF p.url # Absent THEN p.url ELSE prev.url,
   attrs |-> IF p.attrs # Absent THEN p.attrs ELSE prev.attrs]

\* new this(options): _state unset, nothing validated, nothing injected
NewObj(T, by, options) ==
  [type |-> T, by |-> by, config |-> options, given |-> options, ld |-> "none",
   asked |-> NoConfig, check |-> "none", inj |-> NoConfig]

\* the value `this._instance` reads in a static member of class T: the own property
\* of T if it has one, else the property of the class T extends
Lookup(c, T) == IF c.inst[T] # -1 THEN c.inst[T] ELSE c.inst["SmartService"]

\* get instance(): if (!this._instance) this._instance = new this(this._config)
WithInstance(c, T) ==
  IF Lookup(c, T) # 0 THEN c
  ELSE [c EXCEPT !.objs = Append(@, NewObj(T, "instance", c.cfg[T])),
                 !.inst[T] = Len(c.objs) + 1]

CanBuild(T) == Lookup(cls, T) # 0 \/ Len(cls.objs) < MaxObjects

\* T.config(options)
ConfigSet(T, p) ==
  /\ cls' = [cls EXCEPT !.cfg[T] = Merge(@, p),
                        !.call = [type |-> T, arg |-> p, before |-> cls.cfg[T],
                                  ret |-> Merge(cls.cfg[T], p)]]
  /\ UNCHANGED <<svcVars, started, defaultMutex, gates, pre, startCalls, ready, idle, ad, utilVars>>

\* T.config()
ConfigGet(T) ==
  /\ cls' = [cls EXCEPT !.call = [type |-> T, arg |-> NoConfig, before |-> cls.cfg[T],
                                  ret |-> cls.cfg[T]]]
  /\ UNCHANGED <<svcVars, started, defaultMutex, gates, pre, startCalls, ready, idle, ad, utilVars>>

\* T.create(options)
Create(T, o) ==
  /\ Len(cls.objs) < MaxObjects
  /\ cls' = [cls EXCEPT !.objs = Append(@, NewObj(T, "create", o))]
  /\ UNCHANGED <<svcVars, started, defaultMutex, gates, pre, startCalls, ready, idle, ad, utilVars>>

\* T.instance
GetInstance(T) ==
  /\ CanBuild(T)
  /\ cls' = [WithInstance(cls, T) EXCEPT !.got = @ \cup {<<T, Lookup(WithInstance(cls, T), T)>>}]
  /\ UNCHANGED <<svcVars, started, defaultMutex, gates, pre, startCalls, ready, idle, ad, utilVars>>

\* T.instance.load(): _state is set by the first call, _loadTask stops at its first await
InstanceLoad(T) ==
  /\ CanBuild(T)
  /\ LET c == WithInstance(cls, T)
         o == Lookup(c, T)
     IN cls' = IF c.objs[o].ld # "none" THEN [c EXCEPT !.got = @ \cup {<<T, o>>}]
               ELSE [c EXCEPT !.got = @ \cup {<<T, o>>}, !.objs[o].ld = "awaitMutex",
                              !.objs[o].asked = c.cfg[T]]
  /\ UNCHANGED <<svcVars, started, defaultMutex, gates, pre, startCalls, ready, idle, ad, utilVars>>

\* _loadTask of an instance resumes: name / url checks on this._config, then
\* loadScript(id, this._config.url, this._config.attrs)
ObjLoadResume(o) ==
  /\ o \in 1..Len(cls.objs)
  /\ cls.objs[o].ld = "awaitMutex"
  /\ LET c == cls.objs[o].config
     IN cls' = IF LoadCheck(c) # "ok"
               THEN [cls EXCEPT !.objs[o].ld = "rejected", !.objs[o].check = LoadCheck(c)]
               ELSE [cls EXCEPT !.objs[o].ld = "awaitScript", !.objs[o].check = "ok",
                                !.objs[o].inj = c]
  /\ UNCHANGED <<svcVars, started, defaultMutex, gates, pre, startCalls, ready, idle, ad, utilVars>>

NextConfig ==
  \/ \E T \in Types, p \in Partials : ConfigSet(T, p)
  \/ \E T \in Types : ConfigGet(T)
  \/ \E o \in CreateOptions : Create("SmartService", o)
  \/ \E T \in Types : GetInstance(T)
  \/ \E T \in Types : InstanceLoad(T)
  \/ \E o \in 1..MaxObjects : ObjLoadResume(o)

\* one service configuration is enough where the services of `config` are not the subject
InitConfig == Init /\ config = [s \in Services |-> [name |-> "ok", url |-> "ok"]]

SpecConfig == InitConfig /\ [][NextConfig]_vars

\* ---------------------------------------------------- SmartService.preload

\* if (url) setTimeout(applyEarlyHints.bind(null, {rel: 'preload', href: url, ...}), 1)
HintScheduledAlways(c) == "timer"
HintScheduled(c) == IF Falsy(c.url) THEN "none" ELSE "timer"

\* service.preload(): schedules the hint and returns Promise.resolve(); pre[s] has
\* one entry per call: the promise returned and the hint of the call
Preload(s) ==
  /\ Len(pre[s]) < MaxPreloads
  /\ pre' = [pre EXCEPT ![s] = Append(@, [promise |-> "resolved",
                                          hint |-> HintScheduled(config[s])])]
  /\ UNCHANGED <<svcVars, started, defaultMutex, gates, cls, startCalls, ready, idle, ad, utilVars>>

\* the 1 ms timer fires: applyEarlyHints appends the <link rel="preload"> to the head
HintInsert(s) ==
  \E i \in 1..Len(pre[s]) :
    /\ pre[s][i].hint = "timer"
    /\ \A j \in 1..(i - 1) : pre[s][j].hint # "timer"
    /\ pre' = [pre EXCEPT ![s][i].hint = "inserted"]
    /\ UNCHANGED <<svcVars, started, defaultMutex, gates, cls, startCalls, ready, idle, ad, utilVars>>

\* a service whose callers preload, set the mutex and load in any order
NextPreload ==
  \/ \E s \in Services : LoadDetached(s)
  \/ \E s \in Services : SetMutex(s)
  \/ \E g \in GateIds, o \in Settled : SettleUserGate(g, o)
  \/ \E s \in Services : LoadTaskResume(s)
  \/ \E s \in Services, o \in QueueOutcomes : LoadTaskAfterScript(s, o)
  \/ \E s \in Services : Preload(s)
  \/ \E s \in Services : HintInsert(s)

\* one service has a url, the other one has none
InitPreload ==
  Init /\ config = [s \in Services |->
                      [name |-> "ok", url |-> IF s = "A" THEN "ok" ELSE "missing"]]

SpecPreload == InitPreload /\ [][NextPreload]_vars

\* ------------------------------------------------ smart-utils: promisifyIdle

\* options.thresholds.ratio / .duration and options.timeout of a call: 0 is a value
\* that is not given (or 0), which `||` replaces by the default
NoRatio == [num |-> 0, den |-> 1]
RatioOptions == {NoRatio, [num |-> 1, den |-> 4]}
DurationOptions == {0, 200}
TimeoutOptions == {0, 500}

\* what the browser does to a requested callback: the delay until it runs and the
\* deadline.timeRemaining() it reports
IdleDelays == {20, 99, 200}
IdleAllocs == {0, 100, 500}

\* the time that passes inside one callback between its two readings of
\* performance.now(), the one for frameEnd and the one for the next timeout
IdleElapsed == {0, 1}

\* last3.splice(0, 1); last3.push(v)
Last3PushNoEvict(w, v) == <<w[1], w[2], v>>
Last3Push(w, v) == <<w[2], w[3], v>>

\* !isBadFrame && (previousFrameEnd = frameEnd)
NextFrameEndAlways(isBadFrame, previousFrameEnd, frameEnd) == frameEnd
NextFrameEnd(isBadFrame, previousFrameEnd, frameEnd) ==
  IF isBadFrame THEN previousFrameEnd ELSE frameEnd

\* last3.reduce((acc, val) => acc + val, 0)
Sum3(w) == w[1] + w[2] + w[3]

\* const isBadFrame = frameLength < 15
IsBadFrame(frameLength) == frameLength < 150

\* idleRatio > idleThresholdRatio ? allocated : 0, with idleRatio = allocated / frameLength
\* (only evaluated for a frame that is not bad, so frameLength > 0)
Contribution(allocated, frameLength, ratio) ==
  IF allocated * ratio.den > ratio.num * frameLength THEN allocated ELSE 0

\* const isIdleNow = sum(last3) > idleThresholdDuration
IsIdleNowAtLeast(w, duration) == Sum3(w) >= duration
IsIdleNow(w, duration) == Sum3(w) > duration

\* if (isIdleNow || deadline.didTimeout) return finish(true)
FinishesIdleOnly(isIdleNow, didTimeout) == isIdleNow
Finishes(isIdleNow, didTimeout) == isIdleNow \/ didTimeout

\* Math.max(0, idleTimeout - (performance.now() - start))
NextTimeout(timeout, now, start) ==
  IF timeout - (now - start) > 0 THEN timeout - (now - start) ELSE 0

\* if (signal?.aborted) return finish(false, ...)
SignalIgnored(i) == FALSE
SignalAborted(i) == i.signal /\ i.aborted

\* promisifyIdle(options): defaults by `||`, closure state, requestIdleCallback(cb, {timeout});
\* the clock (performance.now()) is counted from the call
PromisifyIdle(r, d, tmo, withSignal) ==
  /\ idle.pc = "none"
  /\ idle' = [pc |-> "pending", value |-> "none",
               ratio |-> IF r.num = 0 THEN IDLE_THRESHOLD_RATIO ELSE r,
               duration |-> IF d = 0 THEN IDLE_THRESHOLD_DURATION ELSE d,
               timeout |-> IF tmo = 0 THEN IDLE_TIMEOUT ELSE tmo,
               signal |-> withSignal, aborted |-> FALSE,
               now |-> 0, start |-> 0, previousFrameEnd |-> 0,
               last3 |-> <<0, 0, 0>>, scheduled |-> 1,
               cbTimeout |-> IF tmo = 0 THEN IDLE_TIMEOUT ELSE tmo,
               cbs |-> 0, didTimeout |-> FALSE,
               allocated |-> 0, frameEnd |-> 0, frameLength |-> 0]
  /\ UNCHANGED <<svcVars, started, defaultMutex, gates, cls, pre, startCalls, ready, ad, utilVars>>

\* controller.abort() of the caller that passed options.signal, before or after
\* the promise has settled
IdleAbort ==
  /\ idle.pc # "none"
  /\ idle.signal
  /\ ~idle.aborted
  /\ idle' = [idle EXCEPT !.aborted = TRUE]
  /\ UNCHANGED <<svcVars, started, defaultMutex, gates, cls, pre, startCalls, ready, ad, utilVars>>

\* the browser runs the requested callback cb(deadline), dt after it was requested:
\* deadline.didTimeout if the timeout given with the request (0: none) has passed
IdleCallback(dt, allocated, elapsed) ==
  /\ idle.pc = "pending"
  /\ idle.scheduled > 0
  /\ idle.cbs < MaxCallbacks
  /\ LET now == idle.now + dt
         didTimeout == idle.cbTimeout > 0 /\ dt >= idle.cbTimeout
         frameEnd == now + allocated
         frameLength == frameEnd - idle.previousFrameEnd
         isBadFrame == IsBadFrame(frameLength)
         last3 == IF isBadFrame THEN idle.last3
                  ELSE Last3Push(idle.last3, Contribution(allocated, frameLength, idle.ratio))
         ran == [idle EXCEPT !.now = now + elapsed, !.cbs = @ + 1, !.scheduled = @ - 1]
     IN idle' =
          IF SignalAborted(idle)
          THEN [ran EXCEPT !.pc = "rejected", !.value = "error"]
          ELSE IF Finishes(IsIdleNow(last3, idle.duration), didTimeout)
          THEN [ran EXCEPT !.pc = "resolved", !.value = "true", !.last3 = last3,
                           !.didTimeout = didTimeout, !.allocated = allocated,
                           !.frameEnd = frameEnd, !.frameLength = frameLength]
          ELSE [ran EXCEPT !.last3 = last3, !.didTimeout = didTimeout,
                           !.allocated = allocated, !.frameEnd = frameEnd, !.frameLength = frameLength,
                           !.previousFrameEnd = NextFrameEnd(isBadFrame, @, frameEnd),
                           !.scheduled = idle.scheduled,
                           !.cbTimeout = NextTimeout(idle.timeout, now + elapsed,
                                                     idle.start)]
  /\ UNCHANGED <<svcVars, started, defaultMutex, gates, cls, pre, startCalls, ready, ad, utilVars>>

NextIdle ==
  \/ \E r \in RatioOptions, d \in DurationOptions, tmo \in TimeoutOptions, sg \in BOOLEAN :
       PromisifyIdle(r, d, tmo, sg)
  \/ IdleAbort
  \/ \E dt \in IdleDelays, a \in IdleAllocs, e \in IdleElapsed : IdleCallback(dt, a, e)

SpecIdle == InitConfig /\ [][NextIdle]_vars

\* --------------------------------------------------- SmartAdsenseElement

\* the service SmartAdsense.instance of the element
AdService == "A"

\* the effective config of an element: SmartAdsense.config() merged with `params`
AdConfigs ==
  { AdDefaults,
    [retryDelay |-> 20, retryCount |-> 0, refreshInterval |-> 0, refreshOnResize |-> TRUE],
    [retryDelay |-> 0, retryCount |-> 3, refreshInterval |-> 30, refreshOnResize |-> TRUE],
    [retryDelay |-> 20, retryCount |-> 2, refreshInterval |-> 30, refreshOnResize |-> TRUE] }

\* event.detail of an 'adsense:status' event
StatusDetails == {"filled", "unfilled", "pending", "failed", "hidden"}

\* contentRect.width of a resize observation; Math.random() * 1000
Widths == {100, 200}
RandomMs == {0, 999}

\* set status(value): if (this._status === value) return; the attribute is written and
\* _onStatusChange() is called, which requests its microtask unless one is requested
SetStatusAlways(a, value) ==
  [a EXCEPT !.status = value, !.attr = value, !.request = TRUE]
SetStatus(a, value) ==
  IF a.status = value THEN a
  ELSE [a EXCEPT !.status = value, !.attr = value, !.request = TRUE]

\* hideAd(): status = 'hidden'; innerHTML = ''; _retries = 0
HideAdKeepsCount(a) == [SetStatus(a, "hidden") EXCEPT !.html = ""]
HideAd(a) == [SetStatus(a, "hidden") EXCEPT !.html = "", !.retries = 0]

\* refreshAd(): status = 'pending'; _retries++; restoreContent(); pushAd()
RefreshAdNoCount(a) ==
  [SetStatus(a, "pending") EXCEPT !.html = a.content, !.pushes = @ + 1]
RefreshAd(a) ==
  [SetStatus(a, "pending") EXCEPT !.retries = @ + 1, !.html = a.content, !.pushes = @ + 1]

RunTask(a, fn) == IF fn = "hideAd" THEN HideAd(a) ELSE RefreshAd(a)

\* this._task.put(fn, delay): the pending task is cancelled; with a delay >= 0 fn is
\* scheduled, without one it runs at once
PutKeepsPending(a, fn, delay) ==
  IF delay >= 0
  THEN IF a.task = NoTask THEN [a EXCEPT !.task = [fn |-> fn, delay |-> delay]] ELSE a
  ELSE RunTask(a, fn)
Put(a, fn, delay) ==
  IF delay >= 0 THEN [a EXCEPT !.task = [fn |-> fn, delay |-> delay]]
  ELSE RunTask([a EXCEPT !.task = NoTask], fn)

\* init() goes on to `await SmartAdsense.instance.load()`
InitCallsLoad(a) == a.content # "" /\ a.matches /\ ~a.inactive

\* init() up to its first await
InitSync(a) ==
  IF a.content = "" THEN a
  ELSE IF ~a.matches THEN Put(a, "hideAd", -1)
  ELSE IF a.inactive THEN a
  ELSE [a EXCEPT !.waiting = @ + 1]

\* a handler that leaves the element as a1 and then calls init()
ThenInit(a1) ==
  /\ InitCallsLoad(a1) => a1.waiting < MaxInits
  /\ ad' = InitSync(a1)
  /\ IF InitCallsLoad(a1)
     THEN /\ state' = [state EXCEPT ![AdService] = LoadState(AdService)]
          /\ taskGate' = [taskGate EXCEPT ![AdService] = LoadGate(AdService, mutex[AdService])]
     ELSE UNCHANGED <<state, taskGate>>
  /\ UNCHANGED <<config, loaded, mutex, validated, injection, injectCalls,
                 failedHook, rejection, calls, started, defaultMutex, gates>>
  /\ UNCHANGED <<cls, pre, startCalls, ready, idle, utilVars>>

\* the element is created with its markup and attributes and connected, or connected
\* again: connectedCallback
Connect(markup, loading, matches, cfg) ==
  /\ ad.born => /\ ~ad.connected
                /\ markup = ad.html /\ loading = ad.loading
                /\ matches = ad.matches /\ cfg = ad.config
  /\ LET a == IF ad.born THEN ad ELSE NewAd(markup, loading, matches, cfg)
     IN ThenInit([a EXCEPT !.connected = TRUE, !.inactive = (a.loading # "eager"),
                          !.intersect = (a.loading # "eager"),
                          !.content = a.html, !.html = ""])

\* disconnectedCallback: restoreContent(); the listeners are unsubscribed
Disconnect ==
  /\ ad.born
  /\ ad.connected
  /\ ad' = [ad EXCEPT !.connected = FALSE, !.html = ad.content, !.intersect = FALSE]
  /\ UNCHANGED <<svcVars, started, defaultMutex, gates, cls, pre, startCalls, ready, idle, utilVars>>

\* the display query starts or stops matching (media change, or the `display`
\* attribute is rewritten): _onDisplayChange / attributeChangedCallback while the
\* element is connected, no handler while it is not
DisplayChange(m) ==
  /\ ad.born
  /\ IF ad.connected
     THEN ThenInit([ad EXCEPT !.matches = m])
     ELSE /\ ad' = [ad EXCEPT !.matches = m]
          /\ UNCHANGED <<svcVars, started, defaultMutex, gates, cls, pre, startCalls,
                         ready, idle, utilVars>>

\* the element comes into view: _onIntersect (once)
Intersect ==
  /\ ad.born
  /\ ad.connected
  /\ ad.intersect
  /\ ThenInit([ad EXCEPT !.intersect = FALSE, !.inactive = FALSE])

\* catch (e) { this.status = 'failed' }
InitCatchRender(a) == Put(a, "refreshAd", 0)
InitCatch(a) == SetStatus(a, "failed")

\* init() resumes after `await SmartAdsense.instance.load()`
InitResume ==
  /\ ad.born
  /\ ad.waiting > 0
  /\ state[AdService] \in Settled
  /\ LET a1 == [ad EXCEPT !.waiting = @ - 1]
     IN ad' = IF state[AdService] = "resolved" THEN Put(a1, "refreshAd", 0)
              ELSE InitCatch(a1)
  /\ UNCHANGED <<svcVars, started, defaultMutex, gates, cls, pre, startCalls, ready, idle, utilVars>>

\* the timer of the DelayedTask fires
TaskFire ==
  /\ ad.born
  /\ ad.task.fn # "none"
  /\ ad.task.fn = "refreshAd" => ad.pushes < MaxPushes
  /\ ad' = RunTask([ad EXCEPT !.task = NoTask], ad.task.fn)
  /\ UNCHANGED <<svcVars, started, defaultMutex, gates, cls, pre, startCalls, ready, idle, utilVars>>

\* if (event.detail === 'unfilled') {retry} else {refresh}
StatusPathFilledOnly(detail) == IF detail = "filled" THEN "refresh" ELSE "retry"
StatusPath(detail) == IF detail = "unfilled" THEN "retry" ELSE "refresh"

\* const canRetry = retryCount === 0 || this._retries < retryCount
CanRetryInclusive(retryCount, retries) == retryCount = 0 \/ retries <= retryCount
CanRetry(retryCount, retries) == retryCount = 0 \/ retries < retryCount

\* if (refreshInterval > 0)
ShouldRefreshAlways(refreshInterval) == refreshInterval >= 0
ShouldRefresh(refreshInterval) == refreshInterval > 0

\* _onAdsenseStatusChange: an 'adsense:status' event with detail `detail` reaches the element
AdsenseStatus(detail, rnd) ==
  /\ ad.born
  /\ ad.connected
  /\ LET a1 == SetStatus(ad, detail)
     IN ad' = IF StatusPath(detail) = "retry"
              THEN IF ad.config.retryDelay > 0
                      /\ CanRetry(ad.config.retryCount, ad.retries)
                   THEN Put(a1, "refreshAd", ad.config.retryDelay * 1000)
                   ELSE a1
              ELSE IF ShouldRefresh(ad.config.refreshInterval)
                   THEN Put(a1, "refreshAd", ad.config.refreshInterval * 1000 + rnd)
                   ELSE a1
  /\ UNCHANGED <<svcVars, started, defaultMutex, gates, cls, pre, startCalls, ready, idle, utilVars>>

\* if (this._lastWidth > 0 && this.status === 'filled')
ResizeRefreshesFirst(lastWidth, status) == status = "filled"
ResizeRefreshes(lastWidth, status) == lastWidth > 0 /\ status = "filled"

\* _onResize (debounced) with the observed contentRect.width
Resize(width) ==
  /\ ad.born
  /\ ad.connected
  /\ ad.config.refreshOnResize
  /\ ad' = IF ad.lastWidth = width THEN ad
           ELSE IF ResizeRefreshes(ad.lastWidth, ad.status)
           THEN [Put([ad EXCEPT !.retries = 0], "refreshAd", 0) EXCEPT !.lastWidth = width]
           ELSE [ad EXCEPT !.lastWidth = width]
  /\ UNCHANGED <<svcVars, started, defaultMutex, gates, cls, pre, startCalls, ready, idle, utilVars>>

\* dispatchCustomEvent(this, this.CHANGE_EVENT, {bubbles: false}): no detail is given
ChangeEvent(a) == [type |-> "smart-adsense:change", bubbles |-> FALSE, detail |-> "none"]

\* the microtask requested by _onStatusChange() runs: one change event is dispatched
StatusChange ==
  /\ ad.born
  /\ ad.request
  /\ ad' = [ad EXCEPT !.request = FALSE, !.event = ChangeEvent(ad)]
  /\ UNCHANGED <<svcVars, started, defaultMutex, gates, cls, pre, startCalls, ready, idle, utilVars>>

\* one element and the service it loads
NextAd ==
  \/ \E markup \in {"", "ins"}, loading \in {"lazy", "eager"}, m \in BOOLEAN,
        cfg \in AdConfigs : Connect(markup, loading, m, cfg)
  \/ Disconnect
  \/ \E m \in BOOLEAN : DisplayChange(m)
  \/ Intersect
  \/ InitResume
  \/ TaskFire
  \/ \E d \in StatusDetails, rnd \in RandomMs : AdsenseStatus(d, rnd)
  \/ \E w \in Widths : Resize(w)
  \/ \E s \in Services : LoadTaskResume(s)
  \/ \E s \in Services, o \in QueueOutcomes : LoadTaskAfterScript(s, o)

\* the other service is not used
InitAd == Init /\ config["B"] = [name |-> "ok", url |-> "ok"]

SpecAd == InitAd /\ [][NextAd]_vars

\* the element with its change events: one markup, one config, and the microtask of
\* _onStatusChange among the steps
NotifyConfig ==
  [retryDelay |-> 20, retryCount |-> 2, refreshInterval |-> 30, refreshOnResize |-> TRUE]

NextNotify ==
  \/ \E loading \in {"lazy", "eager"}, m \in BOOLEAN : Connect("ins", loading, m, NotifyConfig)
  \/ \E m \in BOOLEAN : DisplayChange(m)
  \/ Intersect
  \/ InitResume
  \/ StatusChange
  \/ TaskFire
  \/ \E d \in StatusDetails : AdsenseStatus(d, 0)
  \/ LoadTaskResume(AdService)
  \/ \E o \in QueueOutcomes : LoadTaskAfterScript(AdService, o)

SpecNotify == InitAd /\ [][NextNotify]_vars

\* a slot that is connected once and whose every render is reported 'unfilled'
ReportUnfilled ==
  /\ ad.born
  /\ ad.status = "pending"
  /\ AdsenseStatus("unfilled", 0)

NextRetry ==
  \/ \E markup \in {"", "ins"}, loading \in {"lazy", "eager"}, m \in BOOLEAN,
        cfg \in AdConfigs : ~ad.born /\ Connect(markup, loading, m, cfg)
  \/ Intersect
  \/ InitResume
  \/ TaskFire
  \/ ReportUnfilled
  \/ LoadTaskResume(AdService)
  \/ \E o \in QueueOutcomes : LoadTaskAfterScript(AdService, o)

SpecRetry == InitAd /\ [][NextRetry]_vars

\* ------------------------------------------------- smart-utils: wait tasks

\* the wait tasks raced: waitTimeout(ms), waitUserActivity(), waitIdle(options),
\* and a task of the caller, which settles as it likes
WaitKinds == {"timeout", "activity", "idle", "custom"}
Primitives == {"timeout", "activity", "idle"}

\* the task lists given to waitAny
TaskLists == UNION { [1..n -> WaitKinds] : n \in 1..MaxTasks }

\* const activeSignal = signal ?? abortSignal; without one, new AbortController()
ActiveSignal(signal, abortSignal) ==
  IF signal THEN "signal" ELSE IF abortSignal THEN "abortSignal" ELSE "controller"

\* the token is aborted: the 'abort' listeners of promisifyEvent reject the pending
\* user-activity tasks that were given it; a timer does not listen, and promisifyIdle
\* looks at its signal in its next callback only.  Promise.race follows the first
\* task that settled
AbortToken(r, tok) ==
  LET ts == [i \in DOMAIN r.tasks |->
               IF r.tasks[i].kind = "activity" /\ r.tasks[i].pc = "pending"
                  /\ r.tasks[i].token = tok
               THEN [r.tasks[i] EXCEPT !.pc = "rejected"] ELSE r.tasks[i]]
  IN [r EXCEPT !.aborted = @ \cup {tok}, !.tasks = ts,
               !.result = IF @ = "pending" /\ ts # r.tasks THEN "rejected" ELSE @]

\* waitAny(tasks, signal)(abortSignal): every task is called with the active signal,
\* and the call awaits Promise.race of their promises
WaitAny(kinds, signal, abortSignal) ==
  /\ race.pc = "none"
  /\ LET tok == ActiveSignal(signal, abortSignal)
     IN race' = [pc |-> "racing", token |-> tok,
                 given |-> (IF signal THEN {"signal"} ELSE {})
                           \cup (IF abortSignal THEN {"abortSignal"} ELSE {}),
                 aborted |-> {},
                 tasks |-> [i \in DOMAIN kinds |->
                              [kind |-> kinds[i], pc |-> "pending", token |-> tok]],
                 result |-> "pending", promise |-> "pending"]
  /\ UNCHANGED <<svcVars, started, defaultMutex, gates, cls, pre, startCalls, ready, idle,
                 ad, series>>

\* the owner of a token given to waitAny aborts it
TokenAbort(tok) ==
  /\ race.pc # "none"
  /\ tok \in race.given \ race.aborted
  /\ race' = AbortToken(race, tok)
  /\ UNCHANGED <<svcVars, started, defaultMutex, gates, cls, pre, startCalls, ready, idle,
                 ad, series>>

\* what a pending task may settle to: promisifyTimeout resolves when its timer fires;
\* promisifyEvent resolves on its event; the callback of promisifyIdle rejects if its
\* signal is aborted and else resolves once idle or timed out
TaskOutcomes(task, aborted) ==
  IF task.kind = "custom" THEN {"resolved", "rejected"}
  ELSE IF task.kind = "idle" /\ task.token \in aborted THEN {"rejected"}
  ELSE {"resolved"}

\* the promise of task i settles
TaskSettle(i, outcome) ==
  /\ race.pc # "none"
  /\ i \in DOMAIN race.tasks
  /\ race.tasks[i].pc = "pending"
  /\ outcome \in TaskOutcomes(race.tasks[i], race.aborted)
  /\ race' = [race EXCEPT !.tasks[i].pc = outcome,
                          !.result = IF @ = "pending" THEN outcome ELSE @]
  /\ UNCHANGED <<svcVars, started, defaultMutex, gates, cls, pre, startCalls, ready, idle,
                 ad, series>>

\* try { await Promise.race(...) } finally { controller.abort() }: the finally block
\* runs whatever the race settled to
FinallyResolvedOnly(result) == result = "resolved"
Finally(result) == TRUE

\* the controller is made, and aborted, only when no signal was given
OwnsAnyToken(tok) == TRUE
OwnsToken(tok) == tok = "controller"

\* the call resumes from `await Promise.race(...)`, and its promise settles as the race did
WaitAnyResume ==
  /\ race.pc = "racing"
  /\ race.result # "pending"
  /\ LET r == IF OwnsToken(race.token) /\ Finally(race.result)
              THEN AbortToken(race, race.token) ELSE race
     IN race' = [r EXCEPT !.pc = "done", !.promise = race.result]
  /\ UNCHANGED <<svcVars, started, defaultMutex, gates, cls, pre, startCalls, ready, idle,
                 ad, series>>

\* ------------------------------------------------- smart-utils: asyncSeries

\* promise.catch() without a handler: the promise it returns settles as `promise` did
CatchNothing(outcome) == outcome

\* the for loop reaches task `next` of n: it calls the task and awaits it, or, past the
\* last task, the async function returns
SeriesStep(n, next, outcomes) ==
  [pc |-> IF next <= n THEN "awaiting" ELSE "resolved", n |-> n,
   started |-> IF next <= n THEN next ELSE n, outcomes |-> outcomes]

\* asyncSeries(tasks) with n tasks
AsyncSeries(n) ==
  /\ series.pc = "none"
  /\ series' = SeriesStep(n, 1, <<>>)
  /\ UNCHANGED <<svcVars, started, defaultMutex, gates, cls, pre, startCalls, ready, idle,
                 ad, race>>

\* the promise of the task that was called last settles and `await task().catch()`
\* resumes: it throws what the promise of catch() rejected with, which ends the
\* async function, or the loop goes on
SeriesTaskSettle(outcome) ==
  /\ series.pc = "awaiting"
  /\ LET outs == Append(series.outcomes, outcome)
     IN series' = IF CatchNothing(outcome) = "rejected"
                  THEN [series EXCEPT !.pc = "rejected", !.outcomes = outs]
                  ELSE SeriesStep(series.n, series.started + 1, outs)
  /\ UNCHANGED <<svcVars, started, defaultMutex, gates, cls, pre, startCalls, ready, idle,
                 ad, race>>

\* callers of the helpers
NextWait ==
  \/ \E kinds \in TaskLists, sg \in BOOLEAN, ab \in BOOLEAN : WaitAny(kinds, sg, ab)
  \/ \E tok \in {"signal", "abortSignal"} : TokenAbort(tok)
  \/ \E i \in 1..MaxTasks, o \in {"resolved", "rejected"} : TaskSettle(i, o)
  \/ WaitAnyResume
  \/ \E n \in 0..MaxSeries : AsyncSeries(n)
  \/ \E o \in {"resolved", "rejected"} : SeriesTaskSettle(o)

SpecWait == InitConfig /\ [][NextWait]_vars

\* ------------------------------------------------------------ properties

SettledCalls(s) == { i \in 1..Len(calls[s]) : calls[s][i] # "pending" }

\* the service was enqueued before any load() of it: its load waits on a createMutex gate
Enqueued(s) == taskGate[s] \in GateIds /\ gates[taskGate[s]].kind = "mutex"

\* C1: single-flight load.  However many load() calls are made and whenever they
\* are made, loadScript is invoked at most once and all settled calls have
\* settled to one and the same outcome, the outcome of _state.
C1_SingleFlight ==
  \A s \in Services :
    /\ injectCalls[s] <= 1
    /\ \A i, j \in SettledCalls(s) : calls[s][i] = calls[s][j]
    /\ SettledCalls(s) # {} => state[s] \in Settled
    /\ \A i \in SettledCalls(s) : (calls[s][i] = "true") <=> (state[s] = "resolved")

C1_Witness ==
  \E s \in Services :
    /\ Len(calls[s]) >= 2
    /\ SettledCalls(s) = 1..Len(calls[s])
    /\ injectCalls[s] = 1

\* C2: load() resolves (with true) exactly when the gate resolved, name and url
\* are present and loadScript resolved; in every failure case it rejects with
\* false, never with the cause, and _onFailedScript has run exactly once, with
\* the cause.
C2_Cause(s) ==
  IF GateStatus(taskGate[s]) = "rejected" THEN "gate"
  ELSE IF config[s].name # "ok" THEN "noName"
  ELSE IF config[s].url # "ok" THEN "noUrl"
  ELSE IF injection[s] = "rejectedError" THEN "scriptError"
  ELSE "scriptOther"

C2_LoadOutcome ==
  \A s \in Services :
    /\ state[s] \in Settled =>
         ((state[s] = "resolved") <=>
            /\ GateStatus(taskGate[s]) = "resolved"
            /\ config[s].name = "ok"
            /\ config[s].url = "ok"
            /\ injection[s] = "resolved")
    /\ state[s] = "rejected" =>
         /\ rejection[s] = "false"
         /\ failedHook[s] = <<C2_Cause(s)>>
    /\ state[s] # "rejected" => failedHook[s] = <<>> /\ rejection[s] = "none"
    /\ \A i \in SettledCalls(s) :
         calls[s][i] = (IF state[s] = "resolved" THEN "true" ELSE "false")

C2_Witness ==
  \E s \in Services :
    /\ state[s] = "rejected"
    /\ failedHook[s] = <<"gate">>
    /\ SettledCalls(s) # {}
    /\ \A i \in SettledCalls(s) : calls[s][i] = "false"

\* C3: the gate comes first.  While the promise that was the mutex at the first
\* load() is pending, the load is pending: no validation, no loadScript call,
\* _loaded false, no load() call settled.
C3_GateFirst ==
  \A s \in Services :
    (state[s] # "none" /\ GateStatus(taskGate[s]) = "pending") =>
      /\ state[s] = "awaitMutex"
      /\ ~validated[s]
      /\ injectCalls[s] = 0
      /\ ~loaded[s]
      /\ SettledCalls(s) = {}

C3_Witness ==
  \E s \in Services :
    /\ state[s] = "awaitMutex"
    /\ taskGate[s] \in GateIds
    /\ GateStatus(taskGate[s]) = "pending"
    /\ Len(calls[s]) >= 1

\* C4: orchestration ordering.  A gate built with predecessor B.load is released
\* only after B's load has settled, and a service waiting on such a gate has
\* loadScript invoked only after that.
C4_Ordering ==
  \A g \in GateIds :
    (gates[g].kind = "mutex" /\ gates[g].after = "load") =>
      /\ gates[g].pc = "resolved" => state[gates[g].of] \in Settled
      /\ \A s \in Services :
           (taskGate[s] = g /\ (injectCalls[s] > 0 \/ validated[s])) =>
             state[gates[g].of] \in Settled

C4_Witness ==
  \E a, b \in Services :
    /\ a # b
    /\ Enqueued(b) /\ gates[taskGate[b]].after = "default"
    /\ Enqueued(a) /\ gates[taskGate[a]].after = "load" /\ gates[taskGate[a]].of = b
    /\ started
    /\ state[b] \in Settled
    /\ injectCalls[a] = 1

\* C5: entries are inert until start.  Before start() no createMutex gate has
\* invoked its predecessor factory and no enqueued service has had loadScript
\* invoked; a gate invokes its predecessor factory at most once.
C5_InertUntilStart ==
  /\ \A g \in GateIds :
       gates[g].kind = "mutex" =>
         /\ gates[g].prevCalls <= 1
         /\ ~started => (gates[g].prevCalls = 0 /\ gates[g].pc = "awaitStarted")
  /\ \A s \in Services :
       (Enqueued(s) /\ ~started) =>
         (injectCalls[s] = 0 /\ ~validated[s] /\ state[s] = "awaitMutex")

C5_Witness ==
  /\ ~started
  /\ \A s \in Services : Enqueued(s) /\ mutex[s] = taskGate[s]
  /\ \E s \in Services : gates[taskGate[s]].after = "ext"

\* C6: a failed predecessor still releases the gate.  A createMutex gate never
\* rejects, and once its predecessor has rejected or thrown the gate is resolved.
C6_GateNeverRejects ==
  \A g \in GateIds :
    gates[g].kind = "mutex" =>
      /\ gates[g].pc # "rejected"
      /\ gates[g].prev \in {"rejected", "threw"} => gates[g].pc = "resolved"

C6_Witness ==
  \E s \in Services :
    /\ Enqueued(s)
    /\ gates[taskGate[s]].prev = "rejected"
    /\ validated[s]
    /\ injectCalls[s] = 1

\* C7: SmartLoad.queue() serializes script injections: at most one enqueued
\* service has its loadScript call in flight.
C7_Serialized ==
  Cardinality({ s \in Services : Enqueued(s) /\ state[s] = "awaitScript" }) <= 1

\* C8: configuration errors fail at load time.  Whatever name and url a service
\* was created with, a falsy name or url makes the load fail once the gate has
\* resolved, the name being checked first, and loadScript is never invoked.
C8_ConfigFailFast ==
  \A s \in Services :
    (config[s].name # "ok" \/ config[s].url # "ok") =>
      /\ injectCalls[s] = 0
      /\ state[s] \in {"none", "awaitMutex", "rejected"}
      /\ validated[s] =>
           /\ state[s] = "rejected"
           /\ failedHook[s] = << IF config[s].name # "ok" THEN "noName" ELSE "noUrl" >>

C8_Witness ==
  \E s \in Services :
    /\ config[s].name = "missing" /\ config[s].url = "missing"
    /\ validated[s]
    /\ failedHook[s] = <<"noName">>

\* C9: a mutex set after load() has begun, by the setter or by queue(), has no
\* effect on that load: the promise the load waits on never changes, the load
\* resumes exactly when that promise has settled (it is then enabled whatever
\* the new mutex is), and loadScript is not invoked a second time.
C9_LateGateIgnored ==
  /\ [](\A s \in Services :
          /\ injectCalls[s] <= 1
          /\ (state[s] = "awaitMutex" /\ GateStatus(taskGate[s]) \in Settled)
               => ENABLED LoadTaskResume(s))
  /\ [][\A s \in Services :
          state[s] # "none" =>
            /\ taskGate'[s] = taskGate[s]
            /\ (state[s] = "awaitMutex" /\ state'[s] # "awaitMutex")
                 => GateStatus(taskGate[s]) \in Settled]_vars

C9_Witness ==
  \E s \in Services :
    /\ mutex[s] # taskGate[s]
    /\ mutex[s] \in GateIds
    /\ gates[mutex[s]].kind = "mutex"
    /\ GateStatus(mutex[s]) = "pending"
    /\ state[s] = "resolved"
    /\ injectCalls[s] = 1

\* C10: _loaded is false initially, becomes true only when loadScript has
\* resolved, never reverts, and stays false if the load fails; _loaded implies
\* exactly one loadScript call, which succeeded.
C10_LoadedFlag ==
  /\ [](\A s \in Services :
          /\ loaded[s] <=> state[s] = "resolved"
          /\ loaded[s] => (injectCalls[s] = 1 /\ injection[s] = "resolved")
          /\ state[s] \in {"none", "awaitMutex"} => ~loaded[s])
  /\ [][\A s \in Services : loaded[s] => loaded'[s]]_vars

C10_Witness ==
  \E s \in Services : loaded[s] /\ injectCalls[s] = 1 /\ injection[s] = "resolved"

\* C12: T.config(options) replaces the static _config of T by the merge of the
\* previous value with options, the keys of options winning, and returns it;
\* T.config() changes nothing and returns the current value; no step changes the
\* _config of an instance, in particular of one built with create(), and the
\* static _config of a class changes only in a config(options) call on that class.
C12_ConfigMerge ==
  /\ [](LET c == cls.call IN
          /\ c.type # "none" =>
               /\ cls.cfg[c.type] = c.ret
               /\ c.arg = NoConfig => c.ret = c.before
               /\ c.arg # NoConfig =>
                    /\ c.ret.name = IF c.arg.name # Absent THEN c.arg.name ELSE c.before.name
                    /\ c.ret.url = IF c.arg.url # Absent THEN c.arg.url ELSE c.before.url
                    /\ c.ret.attrs = IF c.arg.attrs # Absent THEN c.arg.attrs
                                     ELSE c.before.attrs
          /\ \A i \in 1..Len(cls.objs) :
               cls.objs[i].by = "create" => cls.objs[i].config = cls.objs[i].given)
  /\ [][/\ \A i \in 1..Len(cls.objs) : cls'.objs[i].config = cls.objs[i].config
        /\ \A T \in Types :
             cls'.cfg[T] # cls.cfg[T] => cls'.call.type = T /\ cls'.call.arg # NoConfig]_vars

\* a config({name, attrs}) call on a class whose url had been configured before, while
\* an instance built with create() exists: name and attrs replaced, url kept
C12_Witness ==
  /\ cls.call.type # "none"
  /\ cls.call.arg # NoConfig
  /\ cls.call.arg.name # Absent
  /\ cls.call.arg.url = Absent
  /\ cls.call.before.url = "u1"
  /\ cls.call.before.name # cls.call.arg.name
  /\ \E i \in 1..Len(cls.objs) : cls.objs[i].by = "create"

\* C13: the load of a singleton validates and injects with the class-wide config
\* as it was when load() was called, whether T.instance was first read before or
\* after the config() calls.
C13_LatestConfig ==
  \A i \in 1..Len(cls.objs) :
    (cls.objs[i].by = "instance" /\ cls.objs[i].check # "none")
      => cls.objs[i].config = cls.objs[i].asked

\* C14: of all the instances T.instance has returned so far, two are the same object
\* if and only if they were returned by the same class.
C14_SingletonPerType ==
  \A x, y \in cls.got : (x[1] = y[1]) <=> (x[2] = y[2])

\* C15: preload() is independent of load().  Every call returns a resolved promise
\* and leaves _state, _mutex, _loaded and the loadScript count as they are; each
\* call schedules exactly one hint insertion if the url is set and none if it is
\* not; a scheduled insertion is performed once, and nothing else changes a call.
C15_PreloadIndependent ==
  /\ [](\A s \in Services : \A i \in 1..Len(pre[s]) :
          /\ pre[s][i].promise = "resolved"
          /\ pre[s][i].hint = "none" <=> Falsy(config[s].url))
  /\ [][\A s \in Services :
          pre'[s] # pre[s] =>
            \/ /\ Len(pre'[s]) = Len(pre[s]) + 1
               /\ SubSeq(pre'[s], 1, Len(pre[s])) = pre[s]
               /\ UNCHANGED <<state, taskGate, mutex, loaded, injection, injectCalls,
                              validated, rejection, failedHook, gates>>
            \/ /\ Len(pre'[s]) = Len(pre[s])
               /\ \E i \in 1..Len(pre[s]) :
                    /\ pre[s][i].hint = "timer"
                    /\ pre' = [pre EXCEPT ![s][i].hint = "inserted"]]_vars

\* preload() called twice on a service whose load is in flight and whose first hint
\* is inserted, and called on a service without url
C15_Witness ==
  \E s, t \in Services :
    /\ Len(pre[s]) = 2 /\ pre[s][1].hint = "inserted" /\ state[s] = "awaitScript"
    /\ Falsy(config[t].url) /\ Len(pre[t]) >= 1 /\ state[t] = "none"

\* C16: start() is idempotent.  From the first start() on the start signal is and
\* stays resolved; a further start() changes nothing of the services, the gates and
\* the signal; a settled gate keeps its settlement, previousTask() of a gate is
\* called at most once and loadScript of a service at most once.
C16_StartIdempotent ==
  /\ [](/\ startCalls >= 1 => started
        /\ \A g \in GateIds : gates[g].prevCalls <= 1
        /\ \A s \in Services : injectCalls[s] <= 1)
  /\ [][/\ (startCalls' # startCalls /\ started) =>
             UNCHANGED <<svcVars, started, defaultMutex, gates>>
        /\ \A g \in GateIds : gates[g].pc \in Settled => gates'[g].pc = gates[g].pc]_vars

\* start() called again after the first call released a gate and the gated service
\* injected its script
C16_Witness ==
  /\ startCalls >= 3
  /\ \E s \in Services :
       /\ Enqueued(s)
       /\ gates[taskGate[s]].pc = "resolved"
       /\ gates[taskGate[s]].prevCalls = 1
       /\ injectCalls[s] = 1

\* C17: once called, onLoaded() is resolved exactly while document.readyState is not
\* 'loading' and onComplete() exactly while it is 'complete': resolved at the call
\* if the condition holds then, else by the first transition that makes it hold
\* (onComplete stays pending in 'interactive'); resolve() runs at most once, the
\* listener is registered only while pending, a resolved promise stays resolved,
\* and a further call returns the memoized promise as it is: it only counts.
C17_Readiness ==
  /\ [](\A k \in ReadyKinds :
          ready[k].calls >= 1 =>
               /\ ready[k].resolves <= 1
               /\ (ready[k].pc = "resolved") <=> ReadyPredicate(k, ready.state)
               /\ (ready[k].pc = "pending") <=> ~ReadyPredicate(k, ready.state)
               /\ ready[k].listening <=> (ready[k].pc = "pending")
               /\ ready[k].resolves = IF ready[k].pc = "resolved" THEN 1 ELSE 0)
  /\ [][\A k \in ReadyKinds :
          ready[k].calls >= 1 =>
            /\ ready[k].pc = "resolved" => ready'[k].pc = "resolved"
            /\ ready'[k] # ready[k] =>
                 \/ ready'[k] = [ready[k] EXCEPT !.calls = @ + 1]
                 \/ ready'[k] = [ready[k] EXCEPT !.pc = "resolved", !.listening = FALSE,
                                                 !.resolves = 1]]_vars

\* onComplete() called twice while loading is still pending in 'interactive', where
\* onLoaded() called while loading has resolved
C17_Witness ==
  /\ ready.state = "interactive"
  /\ ready.onComplete.calls = 2
  /\ ready.onComplete.pc = "pending"
  /\ ready.onLoaded.calls = 2
  /\ ready.onLoaded.resolves = 1
  /\ ready.onLoaded.listening = FALSE

\* C18: a service queued with queue(service, SmartLoad.onLoaded()) injects its script
\* only when the document is no longer 'loading', and one queued with
\* queue(service, SmartLoad.onComplete()) only when it is 'complete'.
C18_AfterReadiness ==
  \A s \in Services :
    (Enqueued(s) /\ gates[taskGate[s]].after \in ReadyKinds /\ injectCalls[s] >= 1)
      => ReadyPredicate(gates[taskGate[s]].after, ready.state)

\* C19: after every idle callback that did not see the signal aborted, the promise
\* is resolved with true if and only if the window, as this callback left it, sums
\* to more than the duration threshold or the deadline reported a timeout;
\* otherwise it is still pending with exactly one callback requested.  A run that
\* resolved or rejected has no callback requested.
C19_IdleDecision ==
  (idle.pc # "none" /\ idle.cbs >= 1) =>
    \/ /\ idle.pc = "rejected"
       /\ idle.aborted
       /\ idle.scheduled = 0
    \/ /\ idle.pc = "resolved"
       /\ idle.value = "true"
       /\ (Sum3(idle.last3) > idle.duration \/ idle.didTimeout)
       /\ idle.scheduled = 0
    \/ /\ idle.pc = "pending"
       /\ ~(Sum3(idle.last3) > idle.duration \/ idle.didTimeout)
       /\ idle.scheduled = 1

\* both ways of resolving and the pending case happen: here a third callback left a
\* non-empty window below the threshold and requested the fourth
C19_Witness ==
  /\ idle.pc = "pending"
  /\ idle.cbs = 3
  /\ idle.scheduled = 1
  /\ ~idle.aborted
  /\ Sum3(idle.last3) > 0
  /\ idle.last3[3] > 0

\* C20 as stated: a callback that leaves the window at or above the duration
\* threshold, the sum equal to the threshold included, resolves the promise.
C20_AtLeastThreshold ==
  (idle.pc \in {"pending", "resolved"} /\ idle.cbs >= 1
     /\ Sum3(idle.last3) >= idle.duration)
    => idle.pc = "resolved"

\* C20 amended: idle is declared once the window sums to strictly more than the
\* duration threshold or the callback reports a timeout; a callback that leaves
\* the window exactly at the threshold without a timeout does not declare idle.
C20_AboveThreshold ==
  (idle.pc \in {"pending", "resolved"} /\ idle.cbs >= 1) =>
    /\ Sum3(idle.last3) > idle.duration => idle.pc = "resolved"
    /\ idle.didTimeout => idle.pc = "resolved"
    /\ (Sum3(idle.last3) = idle.duration /\ ~idle.didTimeout) => idle.pc = "pending"

\* the window sums exactly to the threshold and the promise is pending
C20_Witness ==
  /\ idle.pc = "pending"
  /\ idle.cbs >= 1
  /\ Sum3(idle.last3) = idle.duration
  /\ ~idle.didTimeout

\* C11: injection failures are not retried.  loadScript of the ad service is called at
\* most once; a rejected _state stays rejected and nothing injects again, whatever
\* the element does; and every init() that resumes from `await load()` after the
\* rejection sets status 'failed' and neither schedules nor performs a render.
C11_NoInjectionRetry ==
  /\ [](injectCalls[AdService] <= 1)
  /\ [][/\ state[AdService] = "rejected" =>
             (state'[AdService] = "rejected" /\ injectCalls' = injectCalls)
        /\ (ad.born /\ ad'.waiting < ad.waiting /\ state[AdService] = "rejected") =>
             /\ ad'.status = "failed"
             /\ ad'.pushes = ad.pushes
             /\ ad'.task = ad.task
             /\ ad'.html = ad.html
             /\ ad'.retries = ad.retries]_vars

\* the injection itself failed, a first init() has set 'failed', and a later init()
\* has reached the load step again
C11_Witness ==
  /\ state[AdService] = "rejected"
  /\ injectCalls[AdService] = 1
  /\ ad.born
  /\ ad.status = "failed"
  /\ ad.waiting >= 1

\* C21: a callback that finds the signal aborted rejects with the abort error and
\* requests no further callback, whatever its deadline reports; once the promise
\* has settled, no callback and no abort changes its outcome, and no callback is
\* requested any more.
C21_IdleCancellation ==
  [][/\ (idle.pc = "pending" /\ idle.aborted /\ idle'.cbs = idle.cbs + 1) =>
          /\ idle'.pc = "rejected"
          /\ idle'.value = "error"
          /\ idle'.scheduled = 0
     /\ (idle.pc \in {"resolved", "rejected"}) =>
          /\ idle'.pc = idle.pc
          /\ idle'.value = idle.value
          /\ idle'.cbs = idle.cbs
          /\ idle'.scheduled = 0]_vars

\* the promise was rejected by a callback that ran after earlier callbacks had
\* filled the window, and a promise that resolved had its signal aborted afterwards
C21_Witness ==
  /\ idle.pc = "rejected"
  /\ idle.value = "error"
  /\ idle.cbs >= 2
  /\ Sum3(idle.last3) > 0
  /\ idle.scheduled = 0

\* C22: while the promise is pending and not cancelled, the overall timeout has not
\* passed and the requested callback has a deadline that falls at the overall
\* timeout at the latest, so that the promise is resolved by then.
C22_SettlesByTimeout ==
  (idle.pc = "pending" /\ ~idle.aborted) =>
    /\ idle.now - idle.start < idle.timeout
    /\ idle.cbTimeout > 0
    /\ idle.now - idle.start + idle.cbTimeout <= idle.timeout

\* C23: when waitAny is called without any signal, every task is given the signal
\* of the one controller the call makes; that signal is not aborted while the race
\* is unsettled, and it is aborted when the promise of the call has settled,
\* resolved or rejected.
C23_InternalToken ==
  (race.pc # "none" /\ race.given = {}) =>
    /\ \A i \in DOMAIN race.tasks : race.tasks[i].token = "controller"
    /\ "controller" \in race.aborted => race.result # "pending"
    /\ race.promise # "pending" => "controller" \in race.aborted

\* a race without a given signal rejected, with a task still pending
C23_Witness ==
  /\ race.pc = "done"
  /\ race.given = {}
  /\ race.promise = "rejected"
  /\ "controller" \in race.aborted
  /\ \E i \in DOMAIN race.tasks : race.tasks[i].pc = "pending"

\* C24 as stated: in every use of waitAny, with or without a given signal, once the
\* promise of the call has settled the signal of every task that has not settled is
\* aborted.
C24_LosersAlwaysCancelled ==
  (race.pc = "done") =>
    \A i \in DOMAIN race.tasks :
      race.tasks[i].pc = "pending" => race.tasks[i].token \in race.aborted

\* C24 amended: without a given signal the signal of every task that has not settled
\* is aborted once the promise of the call has settled; a given signal is handed to
\* the tasks as it is and settling the race does not abort it: it is aborted only
\* by its owner.
C24_LosersCancelledByOwner ==
  /\ [](race.pc = "done" /\ race.given = {} =>
          \A i \in DOMAIN race.tasks : race.tasks[i].token \in race.aborted)
  /\ [](race.pc # "none" /\ race.given # {} =>
          \A i \in DOMAIN race.tasks : race.tasks[i].token \in race.given)
  /\ [][(race.pc = "racing" /\ race'.pc = "done" /\ race.given # {}) =>
          race'.aborted = race.aborted]_vars

\* a race with a given signal has settled, a task is still pending and nobody has
\* aborted the signal
C24_Witness ==
  /\ race.pc = "done"
  /\ race.given # {}
  /\ race.aborted = {}
  /\ \E i \in DOMAIN race.tasks : race.tasks[i].pc = "pending"

\* C25: a wait task (waitTimeout, waitUserActivity, waitIdle, waitAny) whose signal
\* is aborted while its promise is pending does not resolve: it rejects.
C25_CancellableByToken ==
  [][race.pc # "none" =>
       /\ \A i \in DOMAIN race.tasks :
            (race.tasks[i].kind \in Primitives /\ race.tasks[i].pc = "pending"
               /\ race.tasks[i].token \in race.aborted)
              => race'.tasks[i].pc # "resolved"
       /\ (race.pc = "racing" /\ race.token \in race.aborted) =>
            race'.promise # "resolved"]_vars

\* C26: asyncSeries calls task i+1 only after task i has settled, a task that
\* rejects does not stop the series, and the promise of asyncSeries resolves: it
\* never rejects, and it settles only when every task has been called and settled.
C26_SeriesIgnoresRejections ==
  series.pc # "none" =>
    /\ Len(series.outcomes) \in {series.started - 1, series.started}
    /\ series.pc # "rejected"
    /\ series.pc = "resolved" => Len(series.outcomes) = series.n

\* the delay of a retry, and the delays of a refresh, in ms
RetryTask(a) == [fn |-> "refreshAd", delay |-> a.config.retryDelay * 1000]
IsRefreshTask(a, task) ==
  /\ task.fn = "refreshAd"
  /\ a.config.refreshInterval * 1000 <= task.delay
  /\ task.delay < (a.config.refreshInterval + 1) * 1000

\* C27: an 'unfilled' notification schedules a re-render after retryDelay seconds if
\* retryDelay > 0 and (retryCount = 0 or the retry counter is below retryCount), and
\* otherwise leaves the timer as it was.
C27_RetryDecision ==
  [][\A rnd \in RandomMs :
       AdsenseStatus("unfilled", rnd) =>
         IF ad.config.retryDelay > 0
            /\ (ad.config.retryCount = 0 \/ ad.retries < ad.config.retryCount)
         THEN ad'.task = RetryTask(ad)
         ELSE ad'.task = ad.task]_vars

\* with retryCount 2 a retry was scheduled at counter 1
C27_Witness ==
  /\ ad.born
  /\ ad.status = "unfilled"
  /\ ad.config.retryCount = 2
  /\ ad.retries = 1
  /\ ad.task = RetryTask(ad)

\* C28: a notification with a status other than 'unfilled' schedules one re-render
\* after a delay in [refreshInterval, refreshInterval + 1) seconds if
\* refreshInterval > 0; with refreshInterval = 0 it leaves the timer as it was, and
\* an 'unfilled' notification then schedules nothing but a retry.
C28_RefreshDecision ==
  [][\A rnd \in RandomMs :
       /\ \A d \in StatusDetails \ {"unfilled"} :
            AdsenseStatus(d, rnd) =>
              IF ad.config.refreshInterval > 0
              THEN IsRefreshTask(ad, ad'.task)
                   /\ ad'.task.delay = ad.config.refreshInterval * 1000 + rnd
              ELSE ad'.task = ad.task
       /\ (AdsenseStatus("unfilled", rnd) /\ ad.config.refreshInterval = 0) =>
            ad'.task \in {ad.task, RetryTask(ad)}]_vars

\* a 'filled' notification has scheduled a refresh close to the upper end of its range
C28_Witness ==
  /\ ad.born
  /\ ad.status = "filled"
  /\ ad.config.refreshInterval = 30
  /\ ad.task = [fn |-> "refreshAd", delay |-> 30999]

\* C29: an 'unfilled' notification schedules a retry or nothing, never a refresh,
\* also when no retry is possible and refreshInterval > 0; a notification with another
\* status schedules a refresh or nothing, never a retry; the element holds at most
\* the one timer the notification scheduled.
C29_RetryRefreshExclusive ==
  [][\A rnd \in RandomMs :
       /\ AdsenseStatus("unfilled", rnd) =>
            /\ ad'.task \in {ad.task, RetryTask(ad)}
            /\ (~(ad.config.retryDelay > 0 /\ CanRetry(ad.config.retryCount, ad.retries))
                  /\ ad.config.refreshInterval > 0) => ad'.task = ad.task
       /\ \A d \in StatusDetails \ {"unfilled"} :
            AdsenseStatus(d, rnd) =>
              /\ ad'.task = ad.task \/ IsRefreshTask(ad, ad'.task)
              /\ ad'.task # ad.task => ad'.task # RetryTask(ad)]_vars

\* the retries are exhausted, refreshInterval > 0, and the 'unfilled' notification
\* has scheduled nothing
C29_Witness ==
  /\ ad.born
  /\ ad.status = "unfilled"
  /\ ad.config.refreshInterval > 0
  /\ ad.config.retryDelay > 0
  /\ ad.retries = ad.config.retryCount
  /\ ad.task = NoTask

\* C30: a resize observation of the recorded width changes nothing; the first
\* observation (recorded width 0) only records the width; a different width with a
\* recorded width > 0 and status 'filled' resets the retry counter to 0, schedules
\* a re-render with delay 0 and records the width; under any other status only the
\* recorded width changes.
C30_ResizeRefresh ==
  [][\A w \in Widths :
       Resize(w) =>
         IF ad.lastWidth = w THEN ad' = ad
         ELSE IF ad.lastWidth = 0 THEN ad' = [ad EXCEPT !.lastWidth = w]
         ELSE IF ad.status = "filled"
         THEN ad' = [ad EXCEPT !.lastWidth = w, !.retries = 0,
                               !.task = [fn |-> "refreshAd", delay |-> 0]]
         ELSE ad' = [ad EXCEPT !.lastWidth = w]]_vars

\* a filled ad that had been rendered was resized from 100 to 200
C30_Witness ==
  /\ ad.born
  /\ ad.status = "filled"
  /\ ad.pushes >= 1
  /\ ad.retries = 0
  /\ ad.lastWidth = 200
  /\ ad.task = [fn |-> "refreshAd", delay |-> 0]

\* a step in which a callback ran that did not find its signal aborted
RanCallback == idle.pc = "pending" /\ ~SignalAborted(idle) /\ idle'.cbs = idle.cbs + 1

\* C36: the window has 3 slots in every state; a callback with a frame of 15 ms or
\* more drops the oldest slot and appends the allocated time if
\* allocated / frameLength is above the ratio threshold and 0 otherwise; a callback
\* with a shorter frame leaves the window as it was.
C36_WindowUpdate ==
  /\ [](idle.pc # "none" => Len(idle.last3) = 3)
  /\ [][RanCallback =>
          idle'.last3 =
            IF idle'.frameLength < 150 THEN idle.last3
            ELSE <<idle.last3[2], idle.last3[3],
                   IF idle'.allocated * idle.ratio.den > idle.ratio.num * idle'.frameLength
                   THEN idle'.allocated ELSE 0>>]_vars

\* a frame of 15 ms or more whose ratio is not above the threshold has pushed a 0
\* behind two idle frames
C36_Witness ==
  /\ idle.pc = "pending"
  /\ idle.cbs >= 3
  /\ idle.frameLength >= 150
  /\ idle.last3[1] > 0
  /\ idle.last3[2] > 0
  /\ idle.last3[3] = 0

\* C37 as stated: the frame length of a callback is its projected frame end minus
\* the projected frame end of the callback right before it (the start time for the
\* first callback), also when that callback was a noise frame.
C37_FromPrecedingCallback ==
  [][RanCallback =>
       idle'.frameLength =
         idle'.frameEnd - (IF idle.cbs = 0 THEN idle.start ELSE idle.frameEnd)]_vars

\* C37 amended: the frame length of a callback is its projected frame end (current
\* time + allocated idle time) minus the projected frame end of the latest earlier
\* callback that was not a noise frame (the start time if there is none): a noise
\* frame does not move the reference point.
C37_FromPrecedingGoodFrame ==
  [][RanCallback =>
         /\ idle'.now - (idle'.frameEnd - idle'.allocated) \in IdleElapsed
         /\ idle'.frameLength = idle'.frameEnd - idle.previousFrameEnd
         /\ idle'.pc = "pending" =>
              idle'.previousFrameEnd =
                IF idle'.frameLength < 150 THEN idle.previousFrameEnd ELSE idle'.frameEnd]_vars

\* a callback right after a noise frame: its frame is measured from the start
C37_Witness ==
  /\ idle.pc = "pending"
  /\ idle.cbs = 2
  /\ idle.previousFrameEnd = 0
  /\ idle.frameEnd > 0
  /\ idle.frameLength = idle.frameEnd

\* the service whose load() the gate of s waits for (queue(s, t.load)), if any
Pred(s) ==
  IF taskGate[s] \in GateIds /\ gates[taskGate[s]].kind = "mutex"
     /\ gates[taskGate[s]].after = "load"
  THEN gates[taskGate[s]].of ELSE NoService

\* the k-th predecessor of s
RECURSIVE Chain(_, _)
Chain(s, k) ==
  IF k = 0 \/ s = NoService THEN s ELSE Chain(Pred(s), k - 1)

\* s waits, directly or through its predecessors, for a service that waits for itself
OnCycle(s) == \E k \in 1..Cardinality(Services) : Chain(s, k) = s
DependsOnCycle(s) == \E k \in 0..Cardinality(Services) : Chain(s, k) \in Services /\ OnCycle(Chain(s, k))

\* C39: once start() has been called, the load of every enqueued service whose
\* predecessors form no cycle settles, resolved or rejected, provided the promises of
\* the callers' factories and the injections settle.
C39_QueueLiveness ==
  \A s \in Services :
    (started /\ Enqueued(s)) ~> (state[s] \in Settled \/ DependsOnCycle(s))

\* a service queued behind the load of the other one has settled after the other one
C39_Witness ==
  \E s \in Services :
    /\ started
    /\ Enqueued(s)
    /\ Pred(s) \in Services \ {s}
    /\ Enqueued(Pred(s))
    /\ state[Pred(s)] = "rejected"
    /\ state[s] = "resolved"

\* C31: setting the status to the value it has is a no-op: the status attribute is
\* written, and a change notification requested, only by a write that changes the
\* status; a change event is dispatched only for such a request
C31_StatusIdempotence ==
  /\ [](ad.born => ad.attr = (IF ad.status = "init" THEN "none" ELSE ad.status))
  /\ [][(ad.born /\ (ad'.attr # ad.attr \/ (ad'.request /\ ~ad.request)))
          => ad'.status # ad.status]_vars
  /\ [][(ad.born /\ ad'.event # ad.event) => (ad.request /\ ~ad'.request)]_vars

\* a filled slot whose change event was dispatched and whose refresh is scheduled: an
\* 'adsense:status' event with detail 'filled' writes 'filled' again and leaves it so
C31_Witness ==
  /\ ad.born /\ ad.connected
  /\ ad.status = "filled" /\ ad.attr = "filled"
  /\ ~ad.request
  /\ ad.event.type = "smart-adsense:change"
  /\ ad.task = [fn |-> "refreshAd", delay |-> 30000]

\* C32: every status transition requests a change notification, the requests made
\* before the microtask runs are answered by one event, and the event dispatched carries
\* the status the element then has as its payload
C32_ChangeNotification ==
  /\ [][(ad.born /\ ad'.status # ad.status) => ad'.request]_vars
  /\ [][(ad.born /\ ad'.event # ad.event) => (ad.request /\ ~ad'.request)]_vars
  /\ []((ad.born /\ ad.event.type # "none" /\ ~ad.request) => ad.event.detail = ad.status)

\* C33: the slot has one timer: a re-render is executed only by the pending task, which
\* is then no longer pending, and every scheduling call (the resumed init(), a retry or
\* refresh decision, a resize refresh) leaves its own action as the pending one whatever
\* was pending before, while the hide action leaves none pending
C33_LastWriteWins ==
  /\ [](ad.born => ad.task.fn \in {"none", "refreshAd"})
  /\ [][(ad.born /\ ad'.pushes # ad.pushes)
          => (ad.task.fn = "refreshAd" /\ ad'.task = NoTask
              /\ ad'.pushes = ad.pushes + 1)]_vars
  /\ [][(ad.born /\ ad'.waiting < ad.waiting /\ state[AdService] = "resolved")
          => ad'.task = [fn |-> "refreshAd", delay |-> 0]]_vars
  /\ [][(ad.born /\ ad'.status # ad.status /\ ad'.status = "unfilled"
         /\ ad.config.retryDelay > 0 /\ CanRetry(ad.config.retryCount, ad.retries))
          => ad'.task = RetryTask(ad)]_vars
  /\ [][(ad.born /\ ad'.status # ad.status /\ ad'.status = "filled"
         /\ ShouldRefresh(ad.config.refreshInterval))
          => IsRefreshTask(ad, ad'.task)]_vars
  /\ [][(ad.born /\ ad'.lastWidth # ad.lastWidth
         /\ ResizeRefreshes(ad.lastWidth, ad.status))
          => ad'.task = [fn |-> "refreshAd", delay |-> 0]]_vars
  /\ [][(ad.born /\ ad.connected /\ ad.html # "" /\ ad'.html = "")
          => (ad'.status = "hidden" /\ ad'.task = NoTask)]_vars

\* an unfilled slot that may retry has the render of a resumed init() pending: it took
\* the place of the retry that the 'unfilled' notification had scheduled
C33_Witness ==
  /\ ad.born
  /\ ad.status = "unfilled"
  /\ ad.config.retryDelay > 0 /\ CanRetry(ad.config.retryCount, ad.retries)
  /\ ad.task = [fn |-> "refreshAd", delay |-> 0]

\* C34: the slot is not rendered by its activation while the display query does not
\* match: an init() that resumes after the service load resolved, with the query no
\* longer matching, leaves the slot hidden and schedules no render, and the render that
\* init() scheduled does not run on a slot whose query does not match
C34_DisplayGate ==
  /\ [][(ad.born /\ ad'.waiting < ad.waiting /\ state[AdService] = "resolved"
         /\ ~ad.matches)
          => (ad'.status = "hidden" /\ ad'.task.fn # "refreshAd")]_vars
  /\ [][(ad.born /\ ad'.pushes > ad.pushes /\ ad.task.delay = 0
         /\ ad.status \in {"init", "hidden"})
          => ad.matches]_vars

\* C35: the retry counter changes in three ways only: an executed re-render adds 1
\* (with status 'pending', the markup restored and one push), the hide action and a
\* resize refresh set it to 0; every push comes with the increment, and a step that only
\* decides or schedules a re-render, or only notes a status, leaves the counter alone
C35_RetryCounter ==
  /\ [][(ad.born /\ ad'.retries # ad.retries)
          => \/ /\ ad'.retries = ad.retries + 1
                /\ ad.task.fn = "refreshAd" /\ ad'.task = NoTask
                /\ ad'.status = "pending" /\ ad'.html = ad.content
                /\ ad'.pushes = ad.pushes + 1
             \/ /\ ad'.retries = 0
                /\ ad'.status = "hidden" /\ ad'.html = "" /\ ad'.task = NoTask
                /\ ad'.pushes = ad.pushes
             \/ /\ ad'.retries = 0
                /\ ad'.lastWidth # ad.lastWidth /\ ad.status = "filled"
                /\ ad'.status = ad.status
                /\ ad'.task = [fn |-> "refreshAd", delay |-> 0]
                /\ ad'.pushes = ad.pushes]_vars
  /\ [][(ad.born /\ ad'.pushes # ad.pushes) => ad'.retries = ad.retries + 1]_vars
  /\ [][(ad.born /\ ad.connected /\ ad.html # "" /\ ad'.html = "") => ad'.retries = 0]_vars
  /\ [][(ad.born /\ ad'.lastWidth # ad.lastWidth
         /\ ResizeRefreshes(ad.lastWidth, ad.status)) => ad'.retries = 0]_vars

\* the slot was rendered twice and its counter is 1: it was reset between the renders
C35_Witness ==
  /\ ad.born
  /\ ad.pushes = 2
  /\ ad.retries = 1
  /\ ad.status = "pending"

C40_RemovalStops ==
  [][(ad.born /\ ~ad.connected /\ ~ad'.connected)
       => /\ ad'.status = "pending" => ad.status = "pending"
          /\ ad'.retries = ad.retries
          /\ ad'.pushes = ad.pushes
          /\ ad'.html = ad.html]_vars

====
